---- MODULE Spec2Model ----
(***************************************************************************)
(* Model of scripts/environment-setup.py (ArtifactEnvironmentCreator) and  *)
(* scripts/data-analysis.py (ExperimentAnalyzer).                          *)
(*                                                                         *)
(* Keys, labels, paths and file contents are strings, built and taken      *)
(* apart the way the Python code builds and takes them apart.              *)
(***************************************************************************)
EXTENDS Integers, Sequences, FiniteSets, TLC

VARIABLES
    \* create_environment
    pc,               \* position in create_environment
    pg_row_num, pg_column_num, artifact_num_low, artifact_num_high,
    pg_dict,          \* the grid dictionary: key -> list of labels
    color_i,          \* index into colors of the colour being placed
    artifact_num,     \* multiplicity drawn for the colour
    unit,             \* completed iterations of "for _ in range(artifact_num)"
    artifact_square,  \* last artifact cell drawn
    \* the file system: [dirs: set of paths, files: path -> content]
    fs,
    \* create_experiment_suite
    spc,              \* position in create_experiment_suite
    repeat_num,
    grid_i,           \* index into grid_sizes of the grid being generated
    iteration,        \* next value of "for iteration in range(repeat_num)"
    \* validate_environment
    vpc, environment, valid,
    \* _analyze_configuration
    apc, a_row_num, a_column_num, framework, dialogue_method,
    a_iteration,      \* next value of "for iteration in range(10)"
    success_count, total_action_time, total_token_usage, total_api_queries,
    valid_experiments, result

envVars == <<pc, pg_row_num, pg_column_num, artifact_num_low, artifact_num_high,
             pg_dict, color_i, artifact_num, unit, artifact_square>>

suiteVars == <<spc, repeat_num, grid_i, iteration>>

valVars == <<vpc, environment, valid>>

anaVars == <<apc, a_row_num, a_column_num, framework, dialogue_method, a_iteration,
             success_count, total_action_time, total_token_usage, total_api_queries,
             valid_experiments, result>>

vars == <<envVars, fs, suiteVars, valVars, anaVars>>

----------------------------------------------------------------------------
(* Bounds of the model *)

\* rows of the grids create_environment is called with directly: 1..MaxRows
MaxRows == 2
\* columns of the grids create_environment is called with directly: 1..MaxCols
MaxCols == 2
\* artifact_num_low and artifact_num_high range over 1..MaxArtifactNum
MaxArtifactNum == 2
\* random.randint(0, rows*cols - 1) is explored for the cell indices 0..MaxDraw
MaxDraw == 1
\* validate_environment is applied to documents whose lists have at most
\* MaxItems labels
MaxItems == 2
\* create_experiment_suite is called with repeat_num in 0..MaxRepeat
MaxRepeat == 1
\* the data root holds result directories for the iterations 0..MaxDirs-1
MaxDirs == 2

----------------------------------------------------------------------------
(* environment-setup.py *)

colors == <<"blue", "red", "green", "purple", "orange">>

Min(a, b) == IF a < b THEN a ELSE b

\* f"{i+0.5}_{j+0.5}" for integers i, j >= 0
CenterKey(i, j) == ToString(i) \o ".5_" \o ToString(j) \o ".5"

\* f"{float(i)}_{float(j)}" for integers i, j >= 0
CornerKey(i, j) == ToString(i) \o ".0_" \o ToString(j) \o ".0"

CenterKeys(rows, cols) == {CenterKey(i, j) : i \in 0..(rows - 1), j \in 0..(cols - 1)}

\* a slip: the corner loops run over range(rows) and range(cols)
CornerKeysShort(rows, cols) ==
    {CornerKey(i, j) : i \in 0..(rows - 1), j \in 0..(cols - 1)}

CornerKeys(rows, cols) == {CornerKey(i, j) : i \in 0..rows, j \in 0..cols}

\* the two initialisation loops: every key is assigned the empty list
InitialGrid(rows, cols) ==
    [k \in CenterKeys(rows, cols) \cup CornerKeys(rows, cols) |-> <<>>]

ArtifactLabel(color) == "artifact_" \o color

TargetLabel(color) == "target_" \o color

\* the list literal that is shuffled
corner_options == << <<1, 0>>, <<0, 0>>, <<0, 1>>, <<1, 1>> >>

\* every order random.shuffle can leave the four options in
Shuffles ==
    {[i \in 1..4 |-> corner_options[p[i]]] :
        p \in {q \in [1..4 -> 1..4] : \A i, j \in 1..4 : q[i] = q[j] => i = j}}

\* the values of random.randint(0, n - 1) the model explores
Draws(n) == 0..Min(n - 1, MaxDraw)

\* a slip: the target label is not appended
PlaceArtifactOnly(dict, corner_key, center_key, color) ==
    [dict |-> [dict EXCEPT ![corner_key] = Append(@, ArtifactLabel(color))],
     err |-> FALSE]

\* a slip: the two labels are exchanged
PlacePairSwapped(dict, corner_key, center_key, color) ==
    LET d1 == [dict EXCEPT ![corner_key] = Append(@, TargetLabel(color))]
    IN  [dict |-> [d1 EXCEPT ![center_key] = Append(@, ArtifactLabel(color))],
         err |-> FALSE]

\* lines 53-54: the artifact label goes to the corner, then the target label
\* to the centre of the target cell; a missing key raises KeyError
PlacePair(dict, corner_key, center_key, color) ==
    LET d1 == [dict EXCEPT ![corner_key] = Append(@, ArtifactLabel(color))]
    IN  IF center_key \in DOMAIN d1
        THEN [dict |-> [d1 EXCEPT ![center_key] = Append(@, TargetLabel(color))],
              err |-> FALSE]
        ELSE [dict |-> d1, err |-> TRUE]

\* a slip: a corner that holds one label counts as free
IsFreeOrSingle(items) == Len(items) <= 1

\* a slip: no corner counts as free
IsFreeNever(items) == Len(items) < 0

\* line 52: the corner is free
IsFree(items) == Len(items) = 0

\* lines 50-55: the corners are visited in the shuffled order, the pair is
\* placed at the first free one, and the loop then breaks
RECURSIVE TryCorners(_, _, _, _, _, _)
TryCorners(dict, options, a, b, center_key, color) ==
    IF options = <<>>
    THEN [dict |-> dict, err |-> FALSE]
    ELSE LET corner_key == CornerKey(a + Head(options)[1], b + Head(options)[2])
         IN  IF corner_key \notin DOMAIN dict
             THEN [dict |-> dict, err |-> TRUE]
             ELSE IF IsFree(dict[corner_key])
                  THEN PlacePair(dict, corner_key, center_key, color)
                  ELSE TryCorners(dict, Tail(options), a, b, center_key, color)

\* lines 19-29
EnvInit ==
    /\ pc = "start"
    /\ pg_dict' = InitialGrid(pg_row_num, pg_column_num)
    /\ color_i' = 0
    /\ pc' = "colors"
    /\ UNCHANGED <<pg_row_num, pg_column_num, artifact_num_low, artifact_num_high,
                   artifact_num, unit, artifact_square>>
    /\ UNCHANGED <<fs, suiteVars, valVars, anaVars>>

\* lines 32-33: the next colour and its multiplicity
NextColor ==
    /\ pc = "colors"
    /\ color_i < Len(colors)
    /\ color_i' = color_i + 1
    /\ \E n \in artifact_num_low..artifact_num_high :
          /\ artifact_num' = n
          /\ pc' = IF n > 0 THEN "units" ELSE "colors"
    /\ unit' = 0
    /\ UNCHANGED <<pg_row_num, pg_column_num, artifact_num_low, artifact_num_high,
                   pg_dict, artifact_square>>
    /\ UNCHANGED <<fs, suiteVars, valVars, anaVars>>

\* lines 35-55: one placement unit
PlaceUnit ==
    /\ pc = "units"
    /\ unit < artifact_num
    /\ \E a_sq \in Draws(pg_row_num * pg_column_num),
          t_sq \in Draws(pg_row_num * pg_column_num),
          shuffled \in Shuffles :
          LET a_artifact == a_sq \div pg_column_num
              b_artifact == a_sq % pg_column_num
              a_target == t_sq \div pg_column_num
              b_target == t_sq % pg_column_num
              r == TryCorners(pg_dict, shuffled, a_artifact, b_artifact,
                              CenterKey(a_target, b_target), colors[color_i])
          IN  /\ artifact_square' = a_sq
              /\ pg_dict' = r.dict
              /\ unit' = unit + 1
              /\ pc' = IF r.err THEN "KeyError"
                       ELSE IF unit + 1 < artifact_num THEN "units" ELSE "colors"
    /\ UNCHANGED <<pg_row_num, pg_column_num, artifact_num_low, artifact_num_high,
                   color_i, artifact_num>>
    /\ UNCHANGED <<fs, suiteVars, valVars, anaVars>>

\* line 57: pg_dict is returned, the other locals of the call are gone
Return ==
    /\ pc = "colors"
    /\ color_i = Len(colors)
    /\ pc' = "returned"
    /\ color_i' = 0
    /\ artifact_num' = 0
    /\ unit' = 0
    /\ artifact_square' = 0
    /\ UNCHANGED <<pg_row_num, pg_column_num, artifact_num_low, artifact_num_high,
                   pg_dict>>
    /\ UNCHANGED <<fs, suiteVars, valVars, anaVars>>


\* str.startswith
startswith(s, prefix) ==
    /\ Len(s) >= Len(prefix)
    /\ SubSeq(s, 1, Len(prefix)) = prefix

\* lines 93-97: the inner loop over the items of one key, carrying the two
\* counters <<artifact_count, target_count>>
RECURSIVE CountItems(_, _)
CountItems(items, counts) ==
    IF items = <<>>
    THEN counts
    ELSE CountItems(Tail(items),
                    IF startswith(Head(items), "artifact_")
                    THEN <<counts[1] + 1, counts[2]>>
                    ELSE IF startswith(Head(items), "target_")
                         THEN <<counts[1], counts[2] + 1>>
                         ELSE counts)

\* lines 89-97: the outer loop over environment.items()
RECURSIVE CountDocument(_, _, _)
CountDocument(env, keys, counts) ==
    IF keys = {}
    THEN counts
    ELSE LET position == CHOOSE k \in keys : TRUE
         IN  CountDocument(env, keys \ {position}, CountItems(env[position], counts))

\* a slip: the document need not hold any artifact
BalancedOnly(artifact_count, target_count) == artifact_count = target_count

\* line 100
Balanced(artifact_count, target_count) ==
    artifact_count = target_count /\ artifact_count > 0

\* lines 86-100
validate_environment(env) ==
    LET counts == CountDocument(env, DOMAIN env, <<0, 0>>)
    IN  Balanced(counts[1], counts[2])

\* a call of validate_environment
Validate ==
    /\ vpc = "start"
    /\ valid' = validate_environment(environment)
    /\ vpc' = "done"
    /\ UNCHANGED <<environment, envVars, fs, suiteVars, anaVars>>

----------------------------------------------------------------------------
(* The file system, as os and shutil act on it *)

\* os.path.join(a, b) for a relative b
join(a, b) == a \o "/" \o b

\* os.path.dirname
RECURSIVE dirname(_)
dirname(path) ==
    IF path = ""
    THEN ""
    ELSE IF SubSeq(path, Len(path), Len(path)) = "/"
         THEN SubSeq(path, 1, Len(path) - 1)
         ELSE dirname(SubSeq(path, 1, Len(path) - 1))

\* path is root or lies below it
Under(path, root) == path = root \/ startswith(path, root \o "/")

\* os.path.exists
exists(f, path) == path \in f.dirs \/ path \in DOMAIN f.files

\* shutil.rmtree of a directory: the directory and all below it is gone
rmtree(f, root) ==
    [dirs |-> {d \in f.dirs : ~Under(d, root)},
     files |-> [q \in {q \in DOMAIN f.files : ~Under(q, root)} |-> f.files[q]]]

\* os.makedirs(path, exist_ok=True): the directory and its missing ancestors
RECURSIVE makedirs(_, _)
makedirs(f, path) ==
    IF path = "" \/ path \in f.dirs
    THEN f
    ELSE LET g == makedirs(f, dirname(path))
         IN  [g EXCEPT !.dirs = @ \cup {path}]

\* os.makedirs fails when the path or an ancestor is a regular file
RECURSIVE makedirs_fails(_, _)
makedirs_fails(f, path) ==
    /\ path # ""
    /\ \/ path \in DOMAIN f.files
       \/ makedirs_fails(f, dirname(path))

\* open(path, 'w') followed by a write of content
write(f, path, content) ==
    [f EXCEPT !.files = [q \in DOMAIN f.files \cup {path} |->
                            IF q = path THEN content ELSE f.files[q]]]

----------------------------------------------------------------------------
(* create_experiment_suite *)

base_path == "base"

grid_sizes == << <<2, 2>>, <<2, 4>>, <<4, 4>>, <<4, 8>> >>

\* f'env_pg_state_{rows}_{cols}' below the base path
grid_dir(root, rows, cols) ==
    join(root, "env_pg_state_" \o ToString(rows) \o "_" \o ToString(cols))

\* f'pg_state{iteration}' below the grid directory
iteration_dir(root, rows, cols, it) ==
    join(grid_dir(root, rows, cols), "pg_state" \o ToString(it))

\* f'pg_state{iteration}.json' below the iteration directory
config_file(root, rows, cols, it) ==
    join(iteration_dir(root, rows, cols, it), "pg_state" \o ToString(it) \o ".json")

\* the text json.dump writes; the document it encodes is pg_dict in the state
\* of the write
JsonText == "json.dump(environment)"

\* a slip: the tree at the base path is kept
KeepTree(f) == makedirs(f, base_path)

\* lines 62-64: the tree at the base path is removed before anything is made
ResetTree(f) ==
    LET cleared == IF exists(f, base_path) THEN rmtree(f, base_path) ELSE f
    IN  makedirs(cleared, base_path)

\* lines 62-64; shutil.rmtree raises on a path that is not a directory
Reset ==
    /\ spc = "start"
    /\ IF base_path \in DOMAIN fs.files
       THEN /\ spc' = "raised"
            /\ fs' = fs
       ELSE /\ spc' = "grids"
            /\ fs' = ResetTree(fs)
    /\ grid_i' = 0
    /\ UNCHANGED <<repeat_num, iteration, envVars, valVars, anaVars>>

\* lines 68-70: the next grid size and its directory
NextGrid ==
    /\ spc = "grids"
    /\ grid_i < Len(grid_sizes)
    /\ grid_i' = grid_i + 1
    /\ LET rows == grid_sizes[grid_i + 1][1]
           cols == grid_sizes[grid_i + 1][2]
       IN  IF makedirs_fails(fs, grid_dir(base_path, rows, cols))
           THEN spc' = "raised" /\ fs' = fs
           ELSE /\ spc' = IF repeat_num > 0 THEN "iterations" ELSE "grids"
                /\ fs' = makedirs(fs, grid_dir(base_path, rows, cols))
    /\ iteration' = 0
    /\ UNCHANGED <<repeat_num, envVars, valVars, anaVars>>

\* lines 72-77: the iteration directory is made and create_environment is
\* called with the grid size and the default artifact range
BeginIteration ==
    /\ spc = "iterations"
    /\ iteration < repeat_num
    /\ LET rows == grid_sizes[grid_i][1]
           cols == grid_sizes[grid_i][2]
       IN  IF makedirs_fails(fs, iteration_dir(base_path, rows, cols, iteration))
           THEN /\ spc' = "raised"
                /\ fs' = fs
                /\ UNCHANGED envVars
           ELSE /\ spc' = "creating"
                /\ fs' = makedirs(fs, iteration_dir(base_path, rows, cols, iteration))
                /\ pc' = "start"
                /\ pg_row_num' = rows
                /\ pg_column_num' = cols
                /\ artifact_num_low' = 1
                /\ artifact_num_high' = 1
                /\ pg_dict' = <<>>
                /\ UNCHANGED <<color_i, artifact_num, unit, artifact_square>>
    /\ UNCHANGED <<repeat_num, grid_i, iteration, valVars, anaVars>>

\* lines 80-82: the returned document is written
WriteDocument ==
    /\ spc = "creating"
    /\ pc = "returned"
    /\ fs' = write(fs, config_file(base_path, grid_sizes[grid_i][1],
                                   grid_sizes[grid_i][2], iteration), JsonText)
    /\ spc' = "written"
    /\ UNCHANGED <<repeat_num, grid_i, iteration, envVars, valVars, anaVars>>

\* line 84 and the step of the iteration loop
NextIteration ==
    /\ spc = "written"
    /\ iteration' = iteration + 1
    /\ spc' = IF iteration + 1 < repeat_num THEN "iterations" ELSE "grids"
    /\ UNCHANGED <<fs, repeat_num, grid_i, envVars, valVars, anaVars>>

\* the grid loop is exhausted: create_experiment_suite returns
SuiteReturn ==
    /\ spc = "grids"
    /\ grid_i = Len(grid_sizes)
    /\ spc' = "done"
    /\ UNCHANGED <<fs, repeat_num, grid_i, iteration, envVars, valVars, anaVars>>

----------------------------------------------------------------------------
(* data-analysis.py *)

data_dir == "data"

candidate_list ==
    << <<"CMAS", "_wo_any_dialogue_history">>,
       <<"CMAS", "_w_only_state_action_history">>,
       <<"HMAS-2", "_wo_any_dialogue_history">>,
       <<"HMAS-2", "_w_only_state_action_history">>,
       <<"HMAS-2", "_w_all_dialogue_history">>,
       <<"HMAS-1", "_w_only_state_action_history">> >>

\* range(10)
NumIterations == 10

\* lines 50-55
result_path(root, rows, cols, it, fw, dm) ==
    join(iteration_dir(root, rows, cols, it), fw \o dm)

Whitespace == {" ", "\t", "\n", "\r"}

\* str.lstrip
RECURSIVE lstrip(_)
lstrip(s) ==
    IF Len(s) > 0 /\ SubSeq(s, 1, 1) \in Whitespace
    THEN lstrip(SubSeq(s, 2, Len(s)))
    ELSE s

\* str.rstrip
RECURSIVE rstrip(_)
rstrip(s) ==
    IF Len(s) > 0 /\ SubSeq(s, Len(s), Len(s)) \in Whitespace
    THEN rstrip(SubSeq(s, 1, Len(s) - 1))
    ELSE s

\* str.strip
strip(s) == rstrip(lstrip(s))

\* length of the first line of the text, its newline included
RECURSIVE LineEnd(_, _)
LineEnd(text, n) ==
    IF n >= Len(text)
    THEN Len(text)
    ELSE IF SubSeq(text, n + 1, n + 1) = "\n"
         THEN n + 1
         ELSE LineEnd(text, n + 1)

\* f.readline() on a freshly opened file
readline(text) == SubSeq(text, 1, LineEnd(text, 0))

\* f.readlines() on a freshly opened file
RECURSIVE readlines(_)
readlines(text) ==
    IF text = ""
    THEN <<>>
    ELSE <<readline(text)>> \o readlines(SubSeq(text, LineEnd(text, 0) + 1, Len(text)))

Digits == <<"0", "1", "2", "3", "4", "5", "6", "7", "8", "9">>

IsDigit(c) == \E d \in 1..10 : Digits[d] = c

DigitValue(c) == (CHOOSE d \in 1..10 : Digits[d] = c) - 1

\* value of a string of digits, given the value of the digits read so far
RECURSIVE ParseDigits(_, _)
ParseDigits(s, acc) ==
    IF s = ""
    THEN acc
    ELSE ParseDigits(SubSeq(s, 2, Len(s)), 10 * acc + DigitValue(SubSeq(s, 1, 1)))

\* the string is made of the characters in the set only
RECURSIVE AllIn(_, _)
AllIn(s, chars) ==
    \/ s = ""
    \/ /\ SubSeq(s, 1, 1) \in chars
       /\ AllIn(SubSeq(s, 2, Len(s)), chars)

\* number of leading digits of the string
RECURSIVE DigitPrefix(_)
DigitPrefix(s) ==
    IF s # "" /\ IsDigit(SubSeq(s, 1, 1))
    THEN 1 + DigitPrefix(SubSeq(s, 2, Len(s)))
    ELSE 0

\* float(s) for the numerals the data files of the model hold: digits, with
\* an optional fraction of zeros; anything else here raises ValueError
float(s) ==
    LET n == DigitPrefix(s)
        rest == SubSeq(s, n + 1, Len(s))
    IN  IF n > 0 /\ (rest = "" \/ (SubSeq(rest, 1, 1) = "."
                                   /\ AllIn(SubSeq(rest, 2, Len(rest)), {"0"})))
        THEN [ok |-> TRUE, value |-> ParseDigits(SubSeq(s, 1, n), 0)]
        ELSE [ok |-> FALSE, value |-> 0]

\* line 80: every line is stripped and converted
RECURSIVE ParseLines(_)
ParseLines(lines) ==
    IF lines = <<>>
    THEN [ok |-> TRUE, values |-> <<>>]
    ELSE LET head == float(strip(Head(lines)))
             rest == ParseLines(Tail(lines))
         IN  [ok |-> head.ok /\ rest.ok, values |-> <<head.value>> \o rest.values]

\* sum(tokens)
RECURSIVE sum(_)
sum(values) == IF values = <<>> THEN 0 ELSE Head(values) + sum(Tail(values))

\* a slip: the denominator is not guarded
AtLeastOneDropped(n) == n

\* max(n, 1)
AtLeastOne(n) == IF n > 1 THEN n ELSE 1

\* the quotient n / d
Quotient(n, d) == [num |-> n, den |-> d]

\* line 66
IsSuccess(status) == status = "success"

\* a slip: the run is not counted
CountValidDropped(n) == n

\* line 84
CountValid(n) == n + 1

\* a slip: one query is counted for each token file
QueriesPerFile(tokens) == 1

\* line 82: the number of API queries is the number of token lines
Queries(tokens) == Len(tokens)

\* lines 61-84: what one existing result directory adds to the counters
\* <<success_count, total_action_time, total_token_usage, total_api_queries,
\*   valid_experiments>>; err is set when float() raises ValueError
ReadResult(f, path, counters) ==
    LET success_file == join(path, "success_failure.txt")
        action_time_file == join(path, "env_action_times.txt")
        token_file == join(path, "token_num_count.txt")
    IN  IF ~exists(f, success_file)
        THEN [err |-> FALSE, counters |-> counters]
        ELSE LET status == strip(readline(f.files[success_file]))
             IN  IF ~IsSuccess(status)
                 THEN [err |-> FALSE,
                       counters |-> [counters EXCEPT ![5] = CountValid(@)]]
                 ELSE LET action_time ==
                              IF exists(f, action_time_file)
                              THEN float(strip(readline(f.files[action_time_file])))
                              ELSE [ok |-> TRUE, value |-> 0]
                          tokens ==
                              IF exists(f, token_file)
                              THEN ParseLines(readlines(f.files[token_file]))
                              ELSE [ok |-> TRUE, values |-> <<>>]
                          api_queries ==
                              IF exists(f, token_file) THEN Queries(tokens.values) ELSE 0
                      IN  IF ~action_time.ok
                          THEN [err |-> TRUE,
                                counters |-> [counters EXCEPT ![1] = @ + 1]]
                          ELSE IF ~tokens.ok
                               THEN [err |-> TRUE,
                                     counters |-> [counters EXCEPT
                                                     ![1] = @ + 1,
                                                     ![2] = @ + action_time.value]]
                               ELSE [err |-> FALSE,
                                     counters |-> [counters EXCEPT
                                                     ![1] = @ + 1,
                                                     ![2] = @ + action_time.value,
                                                     ![3] = @ + sum(tokens.values),
                                                     ![4] = @ + api_queries,
                                                     ![5] = CountValid(@)]]

\* lines 49-84: one iteration of the loop over range(10)
AnalyzeIteration ==
    /\ apc = "loop"
    /\ a_iteration < NumIterations
    /\ a_iteration' = a_iteration + 1
    /\ LET path == result_path(data_dir, a_row_num, a_column_num, a_iteration,
                               framework, dialogue_method)
           r == ReadResult(fs, path,
                           <<success_count, total_action_time, total_token_usage,
                             total_api_queries, valid_experiments>>)
       IN  IF ~exists(fs, path)
           THEN /\ apc' = "loop"
                /\ UNCHANGED <<success_count, total_action_time, total_token_usage,
                               total_api_queries, valid_experiments>>
           ELSE /\ apc' = IF r.err THEN "ValueError" ELSE "loop"
                /\ success_count' = r.counters[1]
                /\ total_action_time' = r.counters[2]
                /\ total_token_usage' = r.counters[3]
                /\ total_api_queries' = r.counters[4]
                /\ valid_experiments' = r.counters[5]
    /\ UNCHANGED <<a_row_num, a_column_num, framework, dialogue_method, result>>
    /\ UNCHANGED <<envVars, fs, suiteVars, valVars>>

\* lines 86-92: a division by zero raises ZeroDivisionError
AnalyzeReturn ==
    /\ apc = "loop"
    /\ a_iteration = NumIterations
    /\ LET r == [success_rate |->
                     Quotient(success_count, AtLeastOne(valid_experiments)),
                 avg_action_time |->
                     Quotient(total_action_time, AtLeastOne(success_count)),
                 avg_token_usage |->
                     Quotient(total_token_usage, AtLeastOne(success_count)),
                 avg_api_queries |->
                     Quotient(total_api_queries, AtLeastOne(success_count)),
                 total_experiments |-> valid_experiments]
       IN  IF \/ r.success_rate.den = 0
              \/ r.avg_action_time.den = 0
              \/ r.avg_token_usage.den = 0
              \/ r.avg_api_queries.den = 0
           THEN apc' = "ZeroDivisionError" /\ result' = result
           ELSE apc' = "done" /\ result' = r
    /\ UNCHANGED <<a_row_num, a_column_num, framework, dialogue_method, a_iteration,
                   success_count, total_action_time, total_token_usage,
                   total_api_queries, valid_experiments>>
    /\ UNCHANGED <<envVars, fs, suiteVars, valVars>>

----------------------------------------------------------------------------
(* Values of the variables a specification does not use *)

EnvIdle ==
    /\ pc = "idle"
    /\ pg_row_num = 0
    /\ pg_column_num = 0
    /\ artifact_num_low = 0
    /\ artifact_num_high = 0
    /\ pg_dict = <<>>
    /\ color_i = 0
    /\ artifact_num = 0
    /\ unit = 0
    /\ artifact_square = 0

EmptyFs == [dirs |-> {}, files |-> <<>>]

SuiteIdle ==
    /\ spc = "idle"
    /\ repeat_num = 0
    /\ grid_i = 0
    /\ iteration = 0

ValIdle ==
    /\ vpc = "idle"
    /\ environment = <<>>
    /\ valid = FALSE

AnaIdle ==
    /\ apc = "idle"
    /\ a_row_num = 0
    /\ a_column_num = 0
    /\ framework = ""
    /\ dialogue_method = ""
    /\ a_iteration = 0
    /\ success_count = 0
    /\ total_action_time = 0
    /\ total_token_usage = 0
    /\ total_api_queries = 0
    /\ valid_experiments = 0
    /\ result = <<>>

----------------------------------------------------------------------------
(* create_environment called with any grid and artifact range.  Ranges     *)
(* above [1,1] are explored on the one-cell grid.                          *)

InitEnv ==
    /\ pc = "start"
    /\ pg_row_num \in 1..MaxRows
    /\ pg_column_num \in 1..MaxCols
    /\ artifact_num_low \in 1..MaxArtifactNum
    /\ artifact_num_high \in artifact_num_low..MaxArtifactNum
    /\ (pg_row_num * pg_column_num > 1) => artifact_num_high = 1
    /\ pg_dict = <<>>
    /\ color_i = 0
    /\ artifact_num = 0
    /\ unit = 0
    /\ artifact_square = 0
    /\ fs = EmptyFs
    /\ SuiteIdle /\ ValIdle /\ AnaIdle

NextEnv == EnvInit \/ NextColor \/ PlaceUnit \/ Return

SpecEnv == InitEnv /\ [][NextEnv]_vars

----------------------------------------------------------------------------
(* create_experiment_suite called on a file system in which the base path  *)
(* is absent, is a tree left by an earlier run, or is a regular file       *)

\* what an earlier run and the simulator left below the base path, and a
\* file outside it
StaleTree ==
    [dirs |-> {base_path,
               grid_dir(base_path, 2, 2),
               iteration_dir(base_path, 2, 2, 0),
               join(iteration_dir(base_path, 2, 2, 0), "CMAS_wo_any_dialogue_history"),
               iteration_dir(base_path, 2, 2, 7),
               "other"},
     files |-> (config_file(base_path, 2, 2, 0) :> "stale")
               @@ (config_file(base_path, 2, 2, 7) :> "stale")
               @@ (join(join(iteration_dir(base_path, 2, 2, 0),
                             "CMAS_wo_any_dialogue_history"),
                        "success_failure.txt") :> "success\n")
               @@ (join(base_path, "notes.txt") :> "stale")
               @@ (join("other", "keep.txt") :> "kept")]

AbsentTree ==
    [dirs |-> {"other"}, files |-> (join("other", "keep.txt") :> "kept")]

FileAtBase ==
    [dirs |-> {"other"},
     files |-> (base_path :> "stale") @@ (join("other", "keep.txt") :> "kept")]

InitSuite ==
    /\ spc = "start"
    /\ repeat_num \in 0..MaxRepeat
    /\ fs \in {StaleTree, AbsentTree, FileAtBase}
    /\ grid_i = 0
    /\ iteration = 0
    /\ EnvIdle /\ ValIdle /\ AnaIdle

NextSuite ==
    \/ Reset \/ NextGrid \/ BeginIteration \/ WriteDocument \/ NextIteration
    \/ SuiteReturn
    \/ EnvInit \/ NextColor \/ PlaceUnit \/ Return

SpecSuite == InitSuite /\ [][NextSuite]_vars

----------------------------------------------------------------------------
(* validate_environment applied to any document *)

\* labels of both kinds, and labels that match neither prefix
Labels == {"artifact_blue", "target_red", "target_blue", "artifact_", "artifactred",
           "Target_red", ""}

BoundedLists == UNION {[1..n -> Labels] : n \in 0..MaxItems}

Documents ==
    UNION {[keys -> BoundedLists] : keys \in SUBSET {CornerKey(0, 0), CenterKey(0, 0)}}

InitValidate ==
    /\ vpc = "start"
    /\ environment \in Documents
    /\ valid = FALSE
    /\ fs = EmptyFs
    /\ EnvIdle /\ SuiteIdle /\ AnaIdle

NextValidate == Validate

SpecValidate == InitValidate /\ [][NextValidate]_vars

----------------------------------------------------------------------------
(* _analyze_configuration called on a data root that holds, for the         *)
(* configuration analysed, any result directories for the first MaxDirs     *)
(* iterations, and a successful run of another configuration                *)

NoFile == "(no file)"

StatusTexts == {"successful\n", " success \nfailure\n", "failure\nsuccess\n"}

ActionTimeTexts == {"5.0\n3\n"}

TokenTexts == {"10.0\n20.0\n", "7\nx\n"}

\* what one iteration holds for the configuration: no directory, or a
\* directory with any of the three files
RunChoices ==
    {[dir |-> FALSE, status |-> NoFile, action |-> NoFile, tokens |-> NoFile]}
    \cup [dir : {TRUE},
          status : StatusTexts \cup {NoFile},
          action : ActionTimeTexts \cup {NoFile},
          tokens : TokenTexts \cup {NoFile}]

FileNames ==
    [status |-> "success_failure.txt",
     action |-> "env_action_times.txt",
     tokens |-> "token_num_count.txt"]

\* the file system holding the runs chosen for the configuration, and a
\* successful run of the configuration other
DataRoot(rows, cols, fw, dm, other, runs) ==
    LET dir(it) == result_path(data_dir, rows, cols, it, fw, dm)
        decoy == result_path(data_dir, rows, cols, 0, other[1], other[2])
        held == {<<it, n>> \in (DOMAIN runs) \X (DOMAIN FileNames) :
                    runs[it].dir /\ runs[it][n] # NoFile}
        paths == {join(dir(e[1]), FileNames[e[2]]) : e \in held}
        text(q) == LET e == CHOOSE e \in held : join(dir(e[1]), FileNames[e[2]]) = q
                   IN  runs[e[1]][e[2]]
    IN  [dirs |-> {dir(it) : it \in {it \in DOMAIN runs : runs[it].dir}} \cup {decoy},
         files |-> [q \in paths |-> text(q)]
                   @@ (join(decoy, "success_failure.txt") :> "success\n")
                   @@ (join(decoy, "env_action_times.txt") :> "9\n")
                   @@ (join(decoy, "token_num_count.txt") :> "8\n")]

\* the calls explored: the first grid with the first configuration and the
\* last grid with the last configuration
AnalyzedCalls == {<<1, 1, 3>>, <<4, 6, 3>>}

InitAnalyze ==
    /\ apc = "loop"
    /\ \E call \in AnalyzedCalls, runs \in [0..(MaxDirs - 1) -> RunChoices] :
          /\ a_row_num = grid_sizes[call[1]][1]
          /\ a_column_num = grid_sizes[call[1]][2]
          /\ framework = candidate_list[call[2]][1]
          /\ dialogue_method = candidate_list[call[2]][2]
          /\ fs = DataRoot(grid_sizes[call[1]][1], grid_sizes[call[1]][2],
                           candidate_list[call[2]][1], candidate_list[call[2]][2],
                           candidate_list[call[3]], runs)
    /\ a_iteration = 0
    /\ success_count = 0
    /\ total_action_time = 0
    /\ total_token_usage = 0
    /\ total_api_queries = 0
    /\ valid_experiments = 0
    /\ result = <<>>
    /\ EnvIdle /\ SuiteIdle /\ ValIdle

NextAnalyze == AnalyzeIteration \/ AnalyzeReturn

SpecAnalyze == InitAnalyze /\ [][NextAnalyze]_vars

----------------------------------------------------------------------------
(* Properties of create_environment, checked under SpecEnv *)

\* the positions <<key, index>> of a document whose label starts with prefix
PositionsWith(doc, prefix) ==
    {e \in UNION {{<<k, i>> : i \in 1..Len(doc[k])} : k \in DOMAIN doc} :
        startswith(doc[e[1]][e[2]], prefix)}

NumArtifacts(doc) == Cardinality(PositionsWith(doc, "artifact_"))

NumTargets(doc) == Cardinality(PositionsWith(doc, "target_"))

\* the grid exists: the initialisation loops have run
GridBuilt == pc \in {"colors", "units", "returned", "KeyError"}

\* the four corner keys adjacent to the cell with index sq
CellCorners(sq) ==
    {CornerKey((sq \div pg_column_num) + dx, (sq % pg_column_num) + dy) :
        dx \in {0, 1}, dy \in {0, 1}}

\* all four corners adjacent to the cell are occupied
Exhausted(dict, sq) ==
    \A k \in CellCorners(sq) : k \in DOMAIN dict /\ Len(dict[k]) > 0

\* C3: after every completed placement unit and in the returned document,
\* the number of artifact_ labels equals the number of target_ labels (in
\* particular when pairs were placed and no unit was skipped).
C3_ArtifactsMatchTargets ==
    GridBuilt => NumArtifacts(pg_dict) = NumTargets(pg_dict)

\* a document is returned in which every colour was placed: no unit was
\* skipped
C3_Witness ==
    /\ pc = "returned"
    /\ pg_row_num * pg_column_num > 1
    /\ NumArtifacts(pg_dict) = Len(colors)
    /\ NumTargets(pg_dict) = Len(colors)

\* C6: the grid has exactly rows*cols + (rows+1)*(cols+1) keys, the centre
\* keys and the corner keys being disjoint, and no step of the placement loop
\* adds or removes a key.
C6_KeySetFixed ==
    /\ [](GridBuilt =>
            /\ Cardinality(DOMAIN pg_dict)
                 = pg_row_num * pg_column_num + (pg_row_num + 1) * (pg_column_num + 1)
            /\ CenterKeys(pg_row_num, pg_column_num)
                 \cap CornerKeys(pg_row_num, pg_column_num) = {})
    /\ [][GridBuilt => DOMAIN pg_dict' = DOMAIN pg_dict]_vars

\* the 1x1 grid is returned with its five keys and with labels placed
C6_Witness ==
    /\ pc = "returned"
    /\ pg_row_num = 1
    /\ pg_column_num = 1
    /\ Cardinality(DOMAIN pg_dict) = 5
    /\ NumArtifacts(pg_dict) > 0

\* C9: a placement unit whose drawn artifact cell has all four adjacent
\* corners occupied changes no list of the grid, raises no error, and the
\* loop goes on to the next unit.
C9_ExhaustedUnitSkipped ==
    [][(pc = "units" /\ Exhausted(pg_dict, artifact_square')) =>
          /\ pg_dict' = pg_dict
          /\ unit' = unit + 1
          /\ pc' = IF unit' < artifact_num THEN "units" ELSE "colors"]_vars

\* the number of labels of the document equal to label
NumEqual(doc, label) ==
    Cardinality({e \in PositionsWith(doc, "") : doc[e[1]][e[2]] = label})

\* a unit has completed without placing its colour, the four corners of the
\* cell it drew being occupied
C9_Witness ==
    /\ pc \in {"units", "colors"}
    /\ unit >= 1
    /\ Exhausted(pg_dict, artifact_square)
    /\ NumEqual(pg_dict, ArtifactLabel(colors[color_i])) < unit
    /\ NumEqual(pg_dict, TargetLabel(colors[color_i])) < unit

\* C10: throughout create_environment every corner key holds at most one
\* label, an artifact label; every centre key holds target labels only; and
\* the four corner keys of every cell index in [0, rows*cols) are keys of
\* the grid, so that no lookup fails.
C10_CornersSingleCentresTargets ==
    GridBuilt =>
        /\ pc # "KeyError"
        /\ \A k \in CornerKeys(pg_row_num, pg_column_num) :
              /\ Len(pg_dict[k]) <= 1
              /\ \A i \in 1..Len(pg_dict[k]) : startswith(pg_dict[k][i], "artifact_")
        /\ \A k \in CenterKeys(pg_row_num, pg_column_num) :
              \A i \in 1..Len(pg_dict[k]) : startswith(pg_dict[k][i], "target_")
        /\ \A sq \in 0..(pg_row_num * pg_column_num - 1) :
              CellCorners(sq) \subseteq DOMAIN pg_dict

\* a document is returned in which a centre holds several target labels
C10_Witness ==
    /\ pc = "returned"
    /\ \E k \in CenterKeys(pg_row_num, pg_column_num) : Len(pg_dict[k]) >= 2
    /\ \E k \in CornerKeys(pg_row_num, pg_column_num) : Len(pg_dict[k]) = 1

----------------------------------------------------------------------------
(* Properties of validate_environment, checked under SpecValidate *)

\* C7: validate_environment returns true exactly when the labels starting
\* with artifact_ are as many as the labels starting with target_ and there
\* is at least one, over all keys; other labels are ignored, the empty
\* document gives false, and the document is left as it was.
C7_ValidIffBalancedAndNonEmpty ==
    /\ [](vpc = "done" =>
            (valid <=> /\ NumArtifacts(environment) = NumTargets(environment)
                       /\ NumArtifacts(environment) > 0))
    /\ [][environment' = environment]_vars

\* a balanced document that also holds labels matching neither prefix is
\* found valid
C7_Witness ==
    /\ vpc = "done"
    /\ valid
    /\ \E k \in DOMAIN environment : \E i \in 1..Len(environment[k]) :
          /\ ~startswith(environment[k][i], "artifact_")
          /\ ~startswith(environment[k][i], "target_")

----------------------------------------------------------------------------
(* Properties of create_experiment_suite, checked under SpecSuite *)

\* C4: every document create_experiment_suite writes satisfies
\* validate_environment, whatever the random draws.
C4_WrittenDocumentsValid ==
    spc = "written" => validate_environment(pg_dict)

\* a document of the last grid size is written in which the fifth colour
\* found all four corners occupied
C4_Witness ==
    /\ spc = "written"
    /\ grid_i = 4
    /\ NumArtifacts(pg_dict) = 4
    /\ config_file(base_path, 4, 8, 0) \in DOMAIN fs.files

\* the documents the suite is to leave below the base path
SuiteDocuments ==
    {join(join(join("base", "env_pg_state_" \o ToString(g[1]) \o "_" \o ToString(g[2])),
               "pg_state" \o ToString(it)),
          "pg_state" \o ToString(it) \o ".json") :
        g \in {<<2, 2>>, <<2, 4>>, <<4, 4>>, <<4, 8>>}, it \in 0..(repeat_num - 1)}

\* the directories the suite is to leave at and below the base path
SuiteDirectories ==
    {"base"}
    \cup {join("base", "env_pg_state_" \o ToString(g[1]) \o "_" \o ToString(g[2])) :
            g \in {<<2, 2>>, <<2, 4>>, <<4, 4>>, <<4, 8>>}}
    \cup {join(join("base", "env_pg_state_" \o ToString(g[1]) \o "_" \o ToString(g[2])),
               "pg_state" \o ToString(it)) :
            g \in {<<2, 2>>, <<2, 4>>, <<4, 4>>, <<4, 8>>}, it \in 0..(repeat_num - 1)}

\* C8: paths are removed only by the first step of the call; from then on
\* every file below the base path is a document written by the call; and
\* when the call returns, the base path holds exactly the 4*R documents and
\* their directories, nothing of what was there before.
C8_ResetFirstThenOnlyDocuments ==
    /\ [][(~(fs.dirs \subseteq fs'.dirs)
           \/ ~(DOMAIN fs.files \subseteq DOMAIN fs'.files)) => spc = "start"]_vars
    /\ [](spc \in {"grids", "iterations", "creating", "written", "done"} =>
            \A q \in DOMAIN fs.files : Under(q, "base") =>
                q \in SuiteDocuments /\ fs.files[q] = JsonText)
    /\ [](spc = "done" =>
            /\ {q \in DOMAIN fs.files : Under(q, "base")} = SuiteDocuments
            /\ Cardinality(SuiteDocuments) = 4 * repeat_num
            /\ {d \in fs.dirs : Under(d, "base")} = SuiteDirectories)

\* the call has returned with a document for each grid size
C8_Witness ==
    /\ spc = "done"
    /\ repeat_num >= 1
    /\ Cardinality({q \in DOMAIN fs.files : Under(q, "base")}) = 4 * repeat_num
    /\ join("other", "keep.txt") \in DOMAIN fs.files

----------------------------------------------------------------------------
(* Properties of _analyze_configuration, checked under SpecAnalyze *)

\* the directory of iteration it for the configuration analysed
AnalyzedDir(it) ==
    result_path(data_dir, a_row_num, a_column_num, it, framework, dialogue_method)

AnalyzedFile(it, name) == join(AnalyzedDir(it), name)

HasFile(it, name) == AnalyzedFile(it, name) \in DOMAIN fs.files

\* iterations whose configuration directory exists
ExistingRuns == {it \in 0..9 : AnalyzedDir(it) \in fs.dirs}

\* iterations whose directory holds a status file
StatusRuns == {it \in ExistingRuns : HasFile(it, "success_failure.txt")}

\* iterations marked success: the first line of the status file, stripped,
\* is the word success
SuccessRuns ==
    {it \in StatusRuns :
        strip(readline(fs.files[AnalyzedFile(it, "success_failure.txt")])) = "success"}

\* the sum of f[x] over the x in S
RECURSIVE SumOver(_, _)
SumOver(S, f) ==
    IF S = {}
    THEN 0
    ELSE LET x == CHOOSE x \in S : TRUE
         IN  f[x] + SumOver(S \ {x}, f)

\* the action time on the first line of the timing file of a run, 0 without
\* a timing file
FirstLineTime(it) ==
    IF HasFile(it, "env_action_times.txt")
    THEN float(strip(readline(fs.files[AnalyzedFile(it, "env_action_times.txt")]))).value
    ELSE 0

\* the token lines of a run, none without a token file
TokenLines(it) ==
    IF HasFile(it, "token_num_count.txt")
    THEN ParseLines(readlines(fs.files[AnalyzedFile(it, "token_num_count.txt")])).values
    ELSE <<>>

TokenSum(it) == sum(TokenLines(it))

TokenLineCount(it) == Len(TokenLines(it))

\* the quotient q equals n / d
Equals(q, n, d) == q.den # 0 /\ d # 0 /\ q.num * d = n * q.den

\* C1 as stated: total_experiments is the number of iterations in [0,10)
\* whose configuration directory exists, with or without a status file.
C1_EveryDirectoryCounted ==
    apc = "done" => result.total_experiments = Cardinality(ExistingRuns)

\* C1 amended: total_experiments is the number of iterations in [0,10) whose
\* configuration directory exists and holds a success_failure.txt file.
C1_DirectoriesWithStatusCounted ==
    apc = "done" => result.total_experiments = Cardinality(StatusRuns)

\* the analysis has returned for a data root in which one directory holds a
\* status file and another does not
C1_Witness ==
    /\ apc = "done"
    /\ StatusRuns # {}
    /\ ExistingRuns \ StatusRuns # {}
    /\ result.total_experiments = 1

\* C2: with no success-marked iteration the analysis raises no error, and
\* the record it returns has success_rate, avg_action_time, avg_token_usage
\* and avg_api_queries equal to 0, whatever timing and token files exist.
C2_ZeroSuccessesGiveZeros ==
    SuccessRuns = {} =>
        /\ apc \notin {"ZeroDivisionError", "ValueError"}
        /\ apc = "done" =>
              /\ Equals(result.success_rate, 0, 1)
              /\ Equals(result.avg_action_time, 0, 1)
              /\ Equals(result.avg_token_usage, 0, 1)
              /\ Equals(result.avg_api_queries, 0, 1)

\* the analysis has returned for a data root with no success-marked
\* iteration in which a failed run holds a timing file and a token file
C2_Witness ==
    /\ apc = "done"
    /\ SuccessRuns = {}
    /\ \E it \in StatusRuns :
          /\ HasFile(it, "env_action_times.txt")
          /\ HasFile(it, "token_num_count.txt")

\* C5: with at least one success-marked iteration, avg_action_time is the sum
\* of the first-line action times of the success-marked iterations divided by
\* their number, avg_token_usage the sum of all their token lines divided by
\* their number, and avg_api_queries the number of their token lines divided
\* by their number; other iterations contribute nothing.
C5_AveragesOverSuccesses ==
    (apc = "done" /\ SuccessRuns # {}) =>
        LET n == Cardinality(SuccessRuns)
        IN  /\ Equals(result.avg_action_time, SumOver(SuccessRuns, [it \in SuccessRuns |-> FirstLineTime(it)]), n)
            /\ Equals(result.avg_token_usage, SumOver(SuccessRuns, [it \in SuccessRuns |-> TokenSum(it)]), n)
            /\ Equals(result.avg_api_queries, SumOver(SuccessRuns, [it \in SuccessRuns |-> TokenLineCount(it)]), n)

\* one success with action time 5 and token lines 10 and 20, beside a failed
\* run that holds a timing file and a token file: the averages are 5, 30, 2
C5_Witness ==
    /\ apc = "done"
    /\ Cardinality(SuccessRuns) = 1
    /\ \E it \in StatusRuns \ SuccessRuns :
          /\ HasFile(it, "env_action_times.txt")
          /\ HasFile(it, "token_num_count.txt")
    /\ Equals(result.avg_action_time, 5, 1)
    /\ Equals(result.avg_token_usage, 30, 1)
    /\ Equals(result.avg_api_queries, 2, 1)

====
